---- MODULE Spec2Model ----
(***************************************************************************)
(* A model of CalendarUpdater: the reconciliation of scraped sessions      *)
(* (combine_duplicate_sessions, add_instructors_to_sessions), the event    *)
(* publisher (google_api.add_classes_to_calendar), the MyStudio scraper    *)
(* with its retry budget, and the control flow of main.                    *)
(*                                                                         *)
(* Times of day are minutes since midnight.  Python objects are modelled   *)
(* by identity: a Session is an id into the heap session_objs, a Student   *)
(* an id into StudentObjs, an Instructor an id into InstructorObjs; none   *)
(* of the three classes defines __eq__, so `in` and `==` compare ids.      *)
(***************************************************************************)
EXTENDS Integers, Sequences, FiniteSets, TLC

VARIABLES
    scraped,            \* the Session objects as passed to the merge (frozen copy)
    session_objs,       \* heap: Session id -> current fields of that object
    combined_sessions,  \* main's combined_sessions: a list of Session ids
    instructors,        \* main's instructors: a list of Instructor ids
    rPc,                \* position in the reconcile pass
    runs,               \* how many times add_instructors_to_sessions has run
    classes,            \* add_classes_to_calendar: the classes argument
    unity_student_names,\* add_classes_to_calendar: the Unity names (membership only)
    focus_student_names,\* add_classes_to_calendar: the Focus names (membership only)
    events,             \* the events the calendar service has inserted, in order
    failed_call,        \* the API call that raised HttpError: NoCall, 0 for build(), k for the k-th insert
    pPc,                \* position of add_classes_to_calendar
    aPc,                \* read_data_from_mystudio: position of the current attempt
    attempts_arg,       \* read_data_from_mystudio: the attempts argument of the outermost call
    attempts,           \* read_data_from_mystudio: the attempts argument of the current call
    attempt_no,         \* how many webdrivers read_data_from_mystudio has created
    logins,             \* how many times log_into_mystudio has been called
    timeouts,           \* how many TimeoutExceptions the handler of line 256 has caught
    open_sessions,      \* the MyStudio browser sessions that have not been quit
    aResult,            \* how the outermost read_data_from_mystudio call ended
    bPc,                \* read_data_from_homebase: position
    bOpen,              \* whether the Homebase browser session is open
    bResult,            \* how read_data_from_homebase ended
    mPc,                \* main: position
    settings_exists,    \* whether settings.json exists
    creds_loaded,       \* whether load_google_api_credentials has run
    printed,            \* the messages main has printed
    mResult,            \* how main ended
    tPc,                \* position of the time-of-day path: reading, parsed, clock, constructed
    reading,            \* the 12-hour reading scraped: hour, minute, period
    via,                \* the function that parsed the reading
    time_of_day,        \* the datetime.time at hand, in minutes since midnight
    new_session         \* the outcome of Session(time_of_day)

recVars == <<scraped, session_objs, combined_sessions, instructors, rPc, runs>>

pubVars == <<classes, unity_student_names, focus_student_names, events, failed_call, pPc>>

aVars == <<aPc, attempts_arg, attempts, attempt_no, logins, timeouts, open_sessions, aResult>>

bVars == <<bPc, bOpen, bResult>>

mVars == <<mPc, settings_exists, creds_loaded, printed, mResult>>

tVars == <<tPc, reading, via, time_of_day, new_session>>

vars == <<recVars, pubVars, aVars, bVars, mVars, tVars>>

\* ------------------------------------------------------------------ bounds
MaxSessions == 3
MaxStaff == 2
MaxRuns == 2
MaxClasses == 2
MaxAttempts == 3

\* ------------------------------------------------------------ basic helpers
Range(s) == {s[i] : i \in 1..Len(s)}

SeqsUpTo(S, n) == UNION {[1..k -> S] : k \in 0..n}

Time(hour, minute) == hour * 60 + minute

Hour(t) == t \div 60

Minute(t) == t % 60

None == 0

\* No API call of the invocation has raised.
NoCall == -1

\* ------------------------------------------------------------ school.py
CREATE == "CREATE"

JR == "JR"

\* The Student objects that can occur in a roster (two of them share a name).
StudentObjs ==
    <<[name |-> "al", curriculum |-> CREATE],
      [name |-> "bo", curriculum |-> CREATE],
      [name |-> "cy", curriculum |-> JR],
      [name |-> "al", curriculum |-> JR]>>

\* The Instructor objects that can occur in a staff list.  Objects 1 and 2 are
\* two records of the same person's shift, as two rows of the shift page give.
InstructorObjs ==
    <<[name |-> "Ann", start_time |-> Time(9, 0), end_time |-> Time(13, 0)],
      [name |-> "Ann", start_time |-> Time(9, 0), end_time |-> Time(13, 0)],
      [name |-> "Bob", start_time |-> Time(8, 0), end_time |-> Time(9, 0)]>>

\* Session.__init__ with end_time omitted: one hour after the start.
DefaultEndTime(start_time) == Time(Hour(start_time) + 1, Minute(start_time))

Session(start_time, students, staff) ==
    [start_time |-> start_time,
     end_time |-> DefaultEndTime(start_time),
     students |-> students,
     instructors |-> staff]

is_scheduled_touching(session, instructor) ==
    /\ instructor.start_time <= session.end_time
    /\ instructor.end_time >= session.start_time

\* Session.is_scheduled: both times are combined with the same date, so the
\* comparison is the comparison of the times of day.
is_scheduled(session, instructor) ==
    /\ instructor.start_time < session.end_time
    /\ instructor.end_time > session.start_time

get_session_from_time_adjacent(heap, sessions, time) ==
    IF sessions # <<>> /\ heap[sessions[Len(sessions)]].start_time = time
    THEN sessions[Len(sessions)]
    ELSE None

\* get_session_from_time: the first session of the list with that start time.
get_session_from_time(heap, sessions, time) ==
    LET hits == {i \in 1..Len(sessions) : heap[sessions[i]].start_time = time}
    IN  IF hits = {} THEN None
        ELSE sessions[CHOOSE i \in hits : \A j \in hits : i <= j]

\* ------------------------------------------------- calendar_updater.py
extend_students_only(heap, existing_session, session) ==
    [heap EXCEPT ![existing_session].students = @ \o heap[session].students]

extend_instructors_only(heap, existing_session, session) ==
    [heap EXCEPT ![existing_session].instructors = @ \o heap[session].instructors]

\* The body of the `if existing_session:` branch: both lists of the existing
\* object are extended in place.
extend_existing(heap, existing_session, session) ==
    [heap EXCEPT ![existing_session].students = @ \o heap[session].students,
                 ![existing_session].instructors = @ \o heap[session].instructors]

combine_step_copying(st, session) ==
    LET existing_session ==
            get_session_from_time(st.heap, st.combined, st.heap[session].start_time)
    IN  IF existing_session # None
        THEN [heap |-> extend_existing(st.heap, existing_session, session),
              combined |-> st.combined]
        ELSE [heap |-> Append(st.heap, st.heap[session]),
              combined |-> Append(st.combined, Len(st.heap) + 1)]

\* One iteration of the loop of combine_duplicate_sessions.
combine_step(st, session) ==
    LET existing_session ==
            get_session_from_time(st.heap, st.combined, st.heap[session].start_time)
    IN  IF existing_session # None
        THEN [heap |-> extend_existing(st.heap, existing_session, session),
              combined |-> st.combined]
        ELSE [heap |-> st.heap, combined |-> Append(st.combined, session)]

RECURSIVE combine_loop(_, _, _)
combine_loop(st, sessions, i) ==
    IF i > Len(sessions) THEN st
    ELSE combine_loop(combine_step(st, sessions[i]), sessions, i + 1)

\* combine_duplicate_sessions(*sessions): the heap after the call and the list
\* it returns.
combine_duplicate_sessions(heap, sessions) ==
    combine_loop([heap |-> heap, combined |-> <<>>], sessions, 1)

assign_step_prepending(heap, session, instructor) ==
    IF /\ is_scheduled(heap[session], InstructorObjs[instructor])
       /\ instructor \notin Range(heap[session].instructors)
    THEN [heap EXCEPT ![session].instructors = <<instructor>> \o @]
    ELSE heap

assign_step_unchecked(heap, session, instructor) ==
    IF is_scheduled(heap[session], InstructorObjs[instructor])
    THEN [heap EXCEPT ![session].instructors = Append(@, instructor)]
    ELSE heap

\* The body of the inner loop of add_instructors_to_sessions.
assign_step(heap, session, instructor) ==
    IF /\ is_scheduled(heap[session], InstructorObjs[instructor])
       /\ instructor \notin Range(heap[session].instructors)
    THEN [heap EXCEPT ![session].instructors = Append(@, instructor)]
    ELSE heap

RECURSIVE assign_instructors(_, _, _, _)
assign_instructors(heap, session, staff, j) ==
    IF j > Len(staff) THEN heap
    ELSE assign_instructors(assign_step(heap, session, staff[j]), session, staff, j + 1)

RECURSIVE add_instructors_loop(_, _, _, _)
add_instructors_loop(heap, sessions, staff, i) ==
    IF i > Len(sessions) THEN heap
    ELSE add_instructors_loop(assign_instructors(heap, sessions[i], staff, 1),
                              sessions, staff, i + 1)

\* add_instructors_to_sessions(sessions, instructors): the heap after the call.
add_instructors_to_sessions(heap, sessions, staff) ==
    add_instructors_loop(heap, sessions, staff, 1)

\* ------------------------------------------------- the reconcile pass
SessionTimes == {Time(9, 0), Time(9, 30), Time(10, 0)}

\* What one scraped or hand-built Session can carry: a roster and a staff list.
SessionLoads ==
    {<< <<>>, <<>> >>, << <<2, 3>>, <<>> >>, << <<4>>, <<1>> >>}

SessionInputs == {Session(t, l[1], l[2]) : t \in SessionTimes, l \in SessionLoads}

RecIdle ==
    /\ scraped = <<>>
    /\ session_objs = <<>>
    /\ combined_sessions = <<>>
    /\ instructors = <<>>
    /\ rPc = "idle"
    /\ runs = 0

PubIdle ==
    /\ classes = <<>>
    /\ unity_student_names = {}
    /\ focus_student_names = {}
    /\ events = <<>>
    /\ failed_call = NoCall
    /\ pPc = "idle"

ScrapeIdle ==
    /\ aPc = "idle"
    /\ attempts_arg = 0
    /\ attempts = 0
    /\ attempt_no = 0
    /\ logins = 0
    /\ timeouts = 0
    /\ open_sessions = {}
    /\ aResult = "pending"
    /\ bPc = "idle"
    /\ bOpen = FALSE
    /\ bResult = "pending"

\* No reading is being parsed and no Session is being constructed by hand.
TimesIdle ==
    /\ tPc = "idle"
    /\ reading = [hour |-> 12, minute |-> 0, period |-> "AM"]
    /\ via = "none"
    /\ time_of_day = 0
    /\ new_session = [raised |-> "none", start_time |-> 0, end_time |-> 0]

MainIdle ==
    /\ mPc = "idle"
    /\ settings_exists = TRUE
    /\ creds_loaded = FALSE
    /\ printed = {}
    /\ mResult = "pending"

RecInit ==
    /\ TimesIdle
    /\ PubIdle
    /\ ScrapeIdle
    /\ MainIdle
    /\ scraped \in SeqsUpTo(SessionInputs, MaxSessions)
    /\ session_objs = scraped
    /\ combined_sessions = <<>>
    /\ instructors \in SeqsUpTo(1..Len(InstructorObjs), MaxStaff)
    /\ rPc = "scraped"
    /\ runs = 0

\* calendar_updater.py line 143
CombineDuplicateSessions ==
    /\ rPc = "scraped"
    /\ LET r == combine_duplicate_sessions(session_objs, [i \in 1..Len(scraped) |-> i])
       IN  /\ session_objs' = r.heap
           /\ combined_sessions' = r.combined
    /\ rPc' = "combined"
    /\ UNCHANGED <<scraped, instructors, runs, pubVars, aVars, bVars, mVars, tVars>>

\* calendar_updater.py line 144 (run again to observe a second assignment)
AddInstructorsToSessions ==
    /\ rPc \in {"combined", "assigned"}
    /\ runs < MaxRuns
    /\ session_objs' = add_instructors_to_sessions(session_objs, combined_sessions,
                                                   instructors)
    /\ rPc' = "assigned"
    /\ runs' = runs + 1
    /\ UNCHANGED <<scraped, combined_sessions, instructors, pubVars, aVars, bVars, mVars, tVars>>

\* combine_duplicate_sessions called a second time with the same Session
\* objects, as a caller holding its input lists can do.
CombineDuplicateSessionsAgain ==
    /\ rPc = "combined"
    /\ LET r == combine_duplicate_sessions(session_objs, [i \in 1..Len(scraped) |-> i])
       IN  /\ session_objs' = r.heap
           /\ combined_sessions' = r.combined
    /\ rPc' = "combined_again"
    /\ UNCHANGED <<scraped, instructors, runs, pubVars, aVars, bVars, mVars, tVars>>

\* calendar_updater.py lines 146-152, after the single assignment of line 144:
\* the attribute google_api.add_sessions_to_calendar is looked up; google_api.py
\* defines add_classes_to_calendar only, so the lookup raises AttributeError and
\* nothing is inserted.
AddSessionsToCalendar ==
    /\ rPc = "assigned"
    /\ runs = 1
    /\ rPc' = "published"
    /\ mResult' = "AttributeError"
    /\ UNCHANGED <<scraped, session_objs, combined_sessions, instructors, runs>>
    /\ UNCHANGED <<mPc, settings_exists, creds_loaded, printed>>
    /\ UNCHANGED <<pubVars, aVars, bVars, tVars>>

RecNext ==
    \/ CombineDuplicateSessions
    \/ AddInstructorsToSessions
    \/ CombineDuplicateSessionsAgain
    \/ AddSessionsToCalendar

SpecReconcile == RecInit /\ [][RecNext]_vars

\* ------------------------------------------------- claims on the reconcile pass
StartTimes(heap, sessions) == [i \in 1..Len(sessions) |-> heap[sessions[i]].start_time]

FirstIndex(s, x) == CHOOSE i \in 1..Len(s) : s[i] = x /\ \A j \in 1..(i - 1) : s[j] # x

Merged == rPc # "scraped"

\* The rosters (f = "students") or staff lists (f = "instructors") of the scraped
\* entries that start at `time`, concatenated in input order.
RECURSIVE ConcatAt(_, _, _)
ConcatAt(f, time, n) ==
    IF n = 0 THEN <<>>
    ELSE ConcatAt(f, time, n - 1)
         \o (IF scraped[n].start_time = time THEN scraped[n][f] ELSE <<>>)

\* C1: the merge returns exactly one entry per distinct start time, in the order
\* of the first occurrence of each start time in the input; start times
\* 9:00, 10:00, 9:00 give two entries, 9:00 then 10:00.
C1_FirstOccurrenceOrder ==
    Merged =>
        LET in == StartTimes(scraped, [i \in 1..Len(scraped) |-> i])
            out == StartTimes(session_objs, combined_sessions)
        IN  /\ \A i, j \in 1..Len(out) : i # j => out[i] # out[j]
            /\ Range(out) = Range(in)
            /\ \A i, j \in 1..Len(out) :
                   i < j => FirstIndex(in, out[i]) < FirstIndex(in, out[j])
            /\ (Cardinality(Range(in)) = Len(in) => out = in)
            /\ (in = <<Time(9, 0), Time(10, 0), Time(9, 0)>>
                   => out = <<Time(9, 0), Time(10, 0)>>)

C1_Witness ==
    /\ rPc = "combined"
    /\ StartTimes(scraped, [i \in 1..Len(scraped) |-> i])
           = <<Time(9, 0), Time(10, 0), Time(9, 0)>>
    /\ Len(combined_sessions) = 2

\* C2: right after the merge, the roster of every output entry is the
\* concatenation, in input order, of the rosters of the input entries with that
\* start time, and its staff list the concatenation of their staff lists.
C2_ConcatenatedInInputOrder ==
    rPc = "combined" =>
        \A i \in 1..Len(combined_sessions) :
            LET e == session_objs[combined_sessions[i]]
            IN  /\ e.students = ConcatAt("students", e.start_time, Len(scraped))
                /\ e.instructors = ConcatAt("instructors", e.start_time, Len(scraped))

C2_Witness ==
    /\ rPc = "combined"
    /\ Len(scraped) = 3
    /\ Len(combined_sessions) = 1
    /\ session_objs[combined_sessions[1]].students = <<4, 2, 3, 4>>
    /\ session_objs[combined_sessions[1]].instructors = <<1, 1>>

NoStaffScraped == \A i \in 1..Len(scraped) : scraped[i].instructors = <<>>

\* C3: starting from entries without staff, after the assignment a member of the
\* staff list is in an entry's staff list iff their shift strictly overlaps
\* the entry (s.start < e.end and s.end > e.start), and nobody else is.
C3_StrictOverlap ==
    (rPc = "assigned" /\ NoStaffScraped) =>
        \A i \in 1..Len(combined_sessions) :
            LET e == session_objs[combined_sessions[i]]
            IN  /\ Range(e.instructors) \subseteq Range(instructors)
                /\ \A k \in Range(instructors) :
                       k \in Range(e.instructors)
                           <=> /\ InstructorObjs[k].start_time < e.end_time
                               /\ InstructorObjs[k].end_time > e.start_time

\* Shift 9:00-13:00 is on entry 9:30-10:30; shift 8:00-9:00 is not on entry
\* 9:00-10:00.
C3_Witness ==
    /\ rPc = "assigned"
    /\ NoStaffScraped
    /\ instructors = <<3, 1>>
    /\ \E i, j \in 1..Len(combined_sessions) :
           LET a == session_objs[combined_sessions[i]]
               b == session_objs[combined_sessions[j]]
           IN  /\ a.start_time = Time(9, 30) /\ a.end_time = Time(10, 30)
               /\ a.instructors = <<1>>
               /\ b.start_time = Time(9, 0) /\ b.end_time = Time(10, 0)
               /\ b.instructors = <<1>>

\* C4: a second run of the assignment with the same staff list leaves every
\* entry's staff list as the first run left it.
C4_Idempotent == [][(rPc = "assigned" /\ rPc' = "assigned") => session_objs' = session_objs]_vars

C4_Witness ==
    /\ rPc = "assigned"
    /\ runs = 2
    /\ \E i \in 1..Len(combined_sessions) :
           Len(session_objs[combined_sessions[i]].instructors) = 2

IsSubsequence(sub, s) ==
    \E f \in [1..Len(sub) -> 1..Len(s)] :
        /\ \A i \in 1..Len(sub) : s[f[i]] = sub[i]
        /\ \A i, j \in 1..Len(sub) : i < j => f[i] < f[j]

\* C5: after the merge and the assignment no entry's staff list holds the same
\* staff member twice, and the staff the assignment added follow the order of
\* the input staff list.
C5_NoStaffTwice ==
    (rPc = "assigned" /\ runs = 1) =>
        \A i \in 1..Len(combined_sessions) :
            LET e == session_objs[combined_sessions[i]]
                carried == Len(ConcatAt("instructors", e.start_time, Len(scraped)))
                added == SubSeq(e.instructors, carried + 1, Len(e.instructors))
            IN  /\ \A a, b \in 1..Len(e.instructors) :
                       a # b => InstructorObjs[e.instructors[a]]
                                    # InstructorObjs[e.instructors[b]]
                /\ IsSubsequence(added, instructors)

\* ------------------------------------------------- code_ninjas.py
\* Ninja and Sensei have the fields of Student and Instructor: the objects of
\* StudentObjs and InstructorObjs stand for them too.
CodeNinjasClass(start_time, students, senseis) ==
    [start_time |-> start_time,
     end_time |-> DefaultEndTime(start_time),
     students |-> students,
     senseis |-> senseis]

create_students(c) ==
    LET Test(s) == StudentObjs[s].curriculum = CREATE IN SelectSeq(c.students, Test)

jr_students(c) ==
    LET Test(s) == StudentObjs[s].curriculum = JR IN SelectSeq(c.students, Test)

unity_students(c, unity_names) ==
    LET Test(s) == StudentObjs[s].name \in unity_names IN SelectSeq(c.students, Test)

focus_students(c, focus_names) ==
    LET Test(s) == StudentObjs[s].name \in focus_names IN SelectSeq(c.students, Test)

\* ------------------------------------------------- google_api.py
\* strftime('%I:%M%p'): the 12-hour clock reading.
FormatTime12(t) ==
    [hour |-> IF Hour(t) % 12 = 0 THEN 12 ELSE Hour(t) % 12,
     minute |-> Minute(t),
     period |-> IF Hour(t) < 12 THEN "AM" ELSE "PM"]

\* strftime('%H:%M')
FormatTime24(t) == [hour |-> Hour(t), minute |-> Minute(t)]

\* [str(student) for student in group]
student_lines(group) == [i \in 1..Len(group) |-> StudentObjs[group[i]].name]

sensei_details(c) ==
    [i \in 1..Len(c.senseis) |->
        [name |-> InstructorObjs[c.senseis[i]].name,
         start_time |-> FormatTime12(InstructorObjs[c.senseis[i]].start_time),
         end_time |-> FormatTime12(InstructorObjs[c.senseis[i]].end_time)]]

block_always(title, lines) == <<[title |-> title, lines |-> lines]>>

\* `if group: description += f"Title:\n{...}\n\n"`: a titled block for a
\* non-empty group, nothing for an empty one.
block_if_any(title, lines) ==
    IF lines # <<>> THEN <<[title |-> title, lines |-> lines]>> ELSE <<>>

impact_students_minus_unity(c, unity_names, focus_names) ==
    LET Test(s) == s \notin Range(unity_students(c, unity_names))
    IN  student_lines(SelectSeq(create_students(c), Test))

\* lines 109-113: the CREATE students that are in neither computed group.
impact_students(c, unity_names, focus_names) ==
    LET Test(s) == /\ s \notin Range(unity_students(c, unity_names))
                   /\ s \notin Range(focus_students(c, focus_names))
    IN  student_lines(SelectSeq(create_students(c), Test))

\* The description string of lines 86-114, as its sequence of titled blocks.
description(c, unity_names, focus_names) ==
    block_if_any("Sensei", sensei_details(c))
    \o block_if_any("Unity", student_lines(unity_students(c, unity_names)))
    \o block_if_any("JR", student_lines(jr_students(c)))
    \o block_if_any("Focus", student_lines(focus_students(c, focus_names)))
    \o <<[title |-> "IMPACT", lines |-> impact_students(c, unity_names, focus_names)]>>

\* The event body of lines 116-129.
event(c, unity_names, focus_names) ==
    [summary |-> [time |-> FormatTime12(c.start_time),
                  create_class_count |-> Len(create_students(c)),
                  jr_class_count |-> Len(jr_students(c))],
     description |-> description(c, unity_names, focus_names),
     start |-> FormatTime24(c.start_time),
     end |-> FormatTime24(c.end_time)]

inserted_through_failure(cs, unity_names, focus_names, failed) ==
    [i \in 1..failed |-> event(cs[i], unity_names, focus_names)]

\* What the calendar holds when the insert for entry `failed` raises HttpError:
\* the inserts of the loop iterations before it were executed.
inserted_before_failure(cs, unity_names, focus_names, failed) ==
    [i \in 1..(failed - 1) |-> event(cs[i], unity_names, focus_names)]

ClassTimes == {Time(9, 0), Time(13, 30)}

ClassRosters == {<<>>, <<1, 2>>, <<2, 1, 3>>, <<4, 2>>, <<3>>}

ClassInputs ==
    {CodeNinjasClass(t, r, z) : t \in ClassTimes, r \in ClassRosters, z \in {<<>>, <<3, 1>>}}

NameLists == {{}, {"al"}, {"bo"}, {"cy"}}

PubInit ==
    /\ TimesIdle
    /\ RecIdle
    /\ ScrapeIdle
    /\ MainIdle
    /\ classes \in SeqsUpTo(ClassInputs, MaxClasses)
    /\ unity_student_names \in NameLists
    /\ focus_student_names \in NameLists
    /\ events = <<>>
    /\ failed_call = NoCall
    /\ pPc = "called"

\* add_classes_to_calendar when no API call raises: one insert per class.
AddClassesToCalendar ==
    /\ pPc = "called"
    /\ events' = [i \in 1..Len(classes) |->
                     event(classes[i], unity_student_names, focus_student_names)]
    /\ pPc' = "returned"
    /\ UNCHANGED <<classes, unity_student_names, focus_student_names, failed_call, recVars, aVars, bVars, mVars, tVars>>

\* add_classes_to_calendar when build() raises HttpError (line 81): the handler
\* of line 135 prints and returns.
AddClassesBuildError ==
    /\ pPc = "called"
    /\ failed_call' = 0
    /\ pPc' = "returned"
    /\ UNCHANGED <<classes, unity_student_names, focus_student_names, events, recVars, aVars, bVars, mVars, tVars>>

\* add_classes_to_calendar when the insert for entry k raises HttpError (line
\* 131): the handler of line 135 prints and returns.
AddClassesInsertError ==
    /\ pPc = "called"
    /\ \E k \in 1..Len(classes) :
           /\ failed_call' = k
           /\ events' = inserted_before_failure(classes, unity_student_names,
                                                focus_student_names, k)
    /\ pPc' = "returned"
    /\ UNCHANGED <<classes, unity_student_names, focus_student_names, recVars, aVars, bVars, mVars, tVars>>

PubNext == AddClassesToCalendar \/ AddClassesBuildError \/ AddClassesInsertError

SpecPublish == PubInit /\ [][PubNext]_vars

\* ------------------------------------------------- claims on the publisher
BlockTitles(d) == [i \in 1..Len(d) |-> d[i].title]

BlockOf(d, title) == {d[i].lines : i \in {j \in 1..Len(d) : d[j].title = title}}

\* C6: the IMPACT group of every event is the class's CREATE roster without the
\* students whose name is in the Unity or the Focus list, in roster order.
C6_ImpactIsCreateMinusGroups ==
    \A i \in 1..Len(events) :
        LET c == classes[i]
            Keep(s) == /\ StudentObjs[s].curriculum = CREATE
                       /\ StudentObjs[s].name \notin unity_student_names
                       /\ StudentObjs[s].name \notin focus_student_names
            kept == SelectSeq(c.students, Keep)
            d == events[i].description
        IN  d[Len(d)] = [title |-> "IMPACT",
                         lines |-> [k \in 1..Len(kept) |-> StudentObjs[kept[k]].name]]

C6_Witness ==
    /\ pPc = "returned"
    /\ unity_student_names = {"cy"}
    /\ focus_student_names = {"al"}
    /\ \E i \in 1..Len(events) :
           /\ classes[i].students = <<2, 1, 3>>
           /\ BlockOf(events[i].description, "IMPACT") = {<<"bo">>}
    /\ \E i \in 1..Len(events) :
           /\ classes[i].students = <<3>>
           /\ BlockOf(events[i].description, "IMPACT") = {<<>>}

Groups(c) ==
    [Sensei |-> c.senseis,
     Unity |-> unity_students(c, unity_student_names),
     JR |-> jr_students(c),
     Focus |-> focus_students(c, focus_student_names)]

\* C7 as stated: a block per non-empty group, the IMPACT block always, and no
\* block other than the Sensei, Unity, Focus and IMPACT blocks.
C7_OnlyFourBlocks ==
    \A i \in 1..Len(events) :
        LET titles == BlockTitles(events[i].description)
            g == Groups(classes[i])
        IN  /\ Range(titles) \subseteq {"Sensei", "Unity", "Focus", "IMPACT"}
            /\ \A t \in {"Sensei", "Unity", "Focus"} : t \in Range(titles) <=> g[t] # <<>>
            /\ "IMPACT" \in Range(titles)

\* C7 amended: the description holds, in this order, a Sensei, a Unity, a JR and
\* a Focus block, each exactly when its group is non-empty, and then the IMPACT
\* block, which is always there; it holds no other block.
C7_FiveBlocks ==
    \A i \in 1..Len(events) :
        LET titles == BlockTitles(events[i].description)
            g == Groups(classes[i])
            Present(t) == t = "IMPACT" \/ g[t] # <<>>
        IN  titles = SelectSeq(<<"Sensei", "Unity", "JR", "Focus", "IMPACT">>, Present)

C7_Witness ==
    /\ pPc = "returned"
    /\ \E i \in 1..Len(events) :
           BlockTitles(events[i].description) = <<"Sensei", "JR", "IMPACT">>
    /\ \E i \in 1..Len(events) :
           /\ BlockTitles(events[i].description) = <<"IMPACT">>
           /\ BlockOf(events[i].description, "IMPACT") = {<<>>}

AllEvents ==
    [i \in 1..Len(classes) |-> event(classes[i], unity_student_names, focus_student_names)]

TimeoutException == "TimeoutException"

\* The driver of the current attempt: webdrivers are numbered as they are created.
driver == attempt_no

retry_if_any_left(n) == n > 0

retry_also_at_zero(n) == n > 1 \/ n = 0

\* line 258: `if attempts > 1`
retry(n) == n > 1

\* What no step of read_data_from_mystudio touches.
AFrame == UNCHANGED <<recVars, pubVars, bVars, mVars, tVars>>

\* selenium_utils.element found its element: the attempt moves on.
AStep(from, to) ==
    /\ aPc = from
    /\ aPc' = to
    /\ UNCHANGED <<attempts_arg, attempts, attempt_no, logins, timeouts, open_sessions, aResult>>

\* selenium_utils.element timed out (lines 45-47, 54-56): it quits the driver and
\* raises TimeoutException, which the handler of line 256 catches.
AElementTimeout(from) ==
    /\ aPc = from
    /\ open_sessions' = open_sessions \ {driver}
    /\ aPc' = "caught"
    /\ UNCHANGED <<attempts_arg, attempts, attempt_no, logins, timeouts, aResult>>

\* An exception other than TimeoutException leaves read_data_from_mystudio.
ARaise(from, e) ==
    /\ aPc = from
    /\ aPc' = "raised"
    /\ aResult' = e
    /\ UNCHANGED <<attempts_arg, attempts, attempt_no, logins, timeouts, open_sessions>>

\* lines 201-207: a new webdriver, hence a new browser session.
ACreateDriver ==
    /\ aPc = "create"
    /\ attempt_no' = attempt_no + 1
    /\ open_sessions' = open_sessions \cup {attempt_no + 1}
    /\ aPc' = "login"
    /\ UNCHANGED <<attempts_arg, attempts, logins, timeouts, aResult>>
    /\ AFrame

\* line 209, log_into_mystudio (lines 155-174): the lookups succeed, one of them
\* times out, or the 2FA code is refused and exit(1) raises SystemExit.
ALogin ==
    /\ aPc = "login"
    /\ logins' = logins + 1
    /\ \/ aPc' = "spinner" /\ UNCHANGED <<open_sessions, aResult>>
       \/ aPc' = "caught" /\ open_sessions' = open_sessions \ {driver} /\ UNCHANGED aResult
       \/ aPc' = "raised" /\ aResult' = "SystemExit" /\ UNCHANGED open_sessions
    /\ UNCHANGED <<attempts_arg, attempts, attempt_no, timeouts>>
    /\ AFrame

\* lines 214-219: the lookup of the loading spinner.
ASpinner ==
    /\ \/ AStep("spinner", "wait")
       \/ AElementTimeout("spinner")
    /\ AFrame

\* lines 221-223: WebDriverWait(...).until returns, or raises TimeoutException
\* itself: nothing quits the driver on this path.
AWait ==
    /\ \/ AStep("wait", "menu")
       \/ /\ aPc = "wait"
          /\ aPc' = "caught"
          /\ UNCHANGED <<attempts_arg, attempts, attempt_no, logins, timeouts, open_sessions, aResult>>
    /\ AFrame

\* lines 228-230: the two menu lookups.
AMenu ==
    /\ \/ AStep("menu", "exists_create")
       \/ AElementTimeout("menu")
    /\ AFrame

\* lines 234-238: element_exists (selenium_utils lines 127-131) returns True, or
\* its element call times out, which quits the driver, and it returns False.
AExistsCreate ==
    /\ \/ AStep("exists_create", "read_create")
       \/ /\ aPc = "exists_create"
          /\ open_sessions' = open_sessions \ {driver}
          /\ aPc' = "exists_jr"
          /\ UNCHANGED <<attempts_arg, attempts, attempt_no, logins, timeouts, aResult>>
    /\ AFrame

\* line 240, read_session_data (lines 45-109): it returns, a lookup times out,
\* or line 93 raises ValueError.
AReadCreate ==
    /\ \/ AStep("read_create", "exists_jr")
       \/ AElementTimeout("read_create")
       \/ ARaise("read_create", "ValueError")
    /\ AFrame

\* lines 245-249: element_exists for the JR list.  On a session that was quit
\* the lookup command fails with a WebDriver error, which is no TimeoutException.
AExistsJr ==
    /\ \/ driver \in open_sessions /\ AStep("exists_jr", "read_jr")
       \/ /\ aPc = "exists_jr"
          /\ driver \in open_sessions
          /\ open_sessions' = open_sessions \ {driver}
          /\ aPc' = "return"
          /\ UNCHANGED <<attempts_arg, attempts, attempt_no, logins, timeouts, aResult>>
       \/ driver \notin open_sessions /\ ARaise("exists_jr", "WebDriverException")
    /\ AFrame

\* line 251
AReadJr ==
    /\ \/ AStep("read_jr", "return")
       \/ AElementTimeout("read_jr")
       \/ ARaise("read_jr", "ValueError")
    /\ AFrame

\* line 254: the data is returned (through every frame of the recursion).
AReturn ==
    /\ aPc = "return"
    /\ aPc' = "returned"
    /\ aResult' = "data"
    /\ UNCHANGED <<attempts_arg, attempts, attempt_no, logins, timeouts, open_sessions>>
    /\ AFrame

\* lines 256-268: the handler retries with attempts - 1, or re-raises; an
\* exception of the recursive call leaves the handler uncaught.
ACatch ==
    /\ aPc = "caught"
    /\ timeouts' = timeouts + 1
    /\ IF retry(attempts)
       THEN /\ attempts' = attempts - 1
            /\ aPc' = "create"
            /\ UNCHANGED aResult
       ELSE /\ aPc' = "raised"
            /\ aResult' = TimeoutException
            /\ UNCHANGED attempts
    /\ UNCHANGED <<attempts_arg, attempt_no, logins, open_sessions>>
    /\ AFrame

ANext ==
    \/ ACreateDriver \/ ALogin \/ ASpinner \/ AWait \/ AMenu \/ AExistsCreate
    \/ AReadCreate \/ AExistsJr \/ AReadJr \/ AReturn \/ ACatch

ADone == aPc \in {"returned", "raised"}

MyStudioInit ==
    /\ TimesIdle
    /\ RecIdle
    /\ PubIdle
    /\ MainIdle
    /\ bPc = "idle"
    /\ bOpen = FALSE
    /\ bResult = "pending"
    /\ aPc = "create"
    /\ attempts_arg \in (-1)..MaxAttempts
    /\ attempts = attempts_arg
    /\ attempt_no = 0
    /\ logins = 0
    /\ timeouts = 0
    /\ open_sessions = {}
    /\ aResult = "pending"

MyStudioNext == ANext

SpecMyStudio == MyStudioInit /\ [][MyStudioNext]_vars

\* Every step of an attempt ends: each lookup and wait has a finite timeout
\* (60, 10, 5 or 0 seconds), and the handler of line 256 runs when it is reached.
SpecMyStudioFair == SpecMyStudio /\ WF_vars(MyStudioNext)

\* ------------------------------------------------- homebase.py
BFrame == UNCHANGED <<recVars, pubVars, aVars, mVars, tVars>>

\* lines 98-104: the Homebase webdriver.
BCreateDriver ==
    /\ bPc = "create"
    /\ bOpen' = TRUE
    /\ bPc' = "login"
    /\ UNCHANGED bResult
    /\ BFrame

\* line 106, log_into_homebase (lines 72-74): the three lookups succeed, or one
\* times out: element quits the driver and the TimeoutException leaves
\* read_data_from_homebase, which has no handler around the login.
BLogin ==
    /\ bPc = "login"
    /\ \/ bPc' = "names" /\ UNCHANGED <<bOpen, bResult>>
       \/ bPc' = "raised" /\ bOpen' = FALSE /\ bResult' = TimeoutException
    /\ BFrame

\* lines 130-144: elements is called with quit_webdriver_on_timeout=False, a
\* keyword selenium_utils.elements (lines 59-66) does not take: the call
\* raises TypeError, which `except TimeoutException` does not catch.
BReadNames ==
    /\ bPc = "names"
    /\ bPc' = "raised"
    /\ bResult' = "TypeError"
    /\ UNCHANGED bOpen
    /\ BFrame

BNext == BCreateDriver \/ BLogin \/ BReadNames

BDone == bPc \in {"returned", "raised"}

\* ------------------------------------------------- calendar_updater.py: main
\* line 121: attempts=3
MainAttempts == 3

MFrame == UNCHANGED <<recVars, pubVars, tVars>>

main_results_uncaught(a, b) ==
    IF a # "data" THEN a ELSE IF b # "data" THEN b ELSE "proceed"

\* lines 135-141: mystudio_future.result() is taken first, then
\* homebase_future.result(); each re-raises what its task raised, and only a
\* TimeoutException is caught.
main_results(a, b) ==
    IF a = TimeoutException THEN "caught"
    ELSE IF a # "data" THEN a
    ELSE IF b = TimeoutException THEN "caught"
    ELSE IF b # "data" THEN b
    ELSE "proceed"

first_completed == ADone \/ BDone

\* line 133: concurrent.futures.wait with its default return_when,
\* ALL_COMPLETED.
all_completed == ADone /\ BDone

MainCreateSettings_no_return ==
    /\ mPc = "start"
    /\ ~settings_exists
    /\ settings_exists' = TRUE
    /\ printed' = printed \cup {"Please fill out the settings.json file and run again."}
    /\ creds_loaded' = TRUE
    /\ mPc' = "submit"
    /\ UNCHANGED <<mResult, aVars, bVars>>
    /\ MFrame

\* lines 97-100: no settings.json: write the template, print, return.
MainCreateSettings ==
    /\ mPc = "start"
    /\ ~settings_exists
    /\ settings_exists' = TRUE
    /\ printed' = printed \cup {"Please fill out the settings.json file and run again."}
    /\ mResult' = "returned"
    /\ mPc' = "done"
    /\ UNCHANGED <<creds_loaded, aVars, bVars>>
    /\ MFrame

\* lines 101-108: read the settings and load the credentials.
MainLoadCredentials ==
    /\ mPc = "start"
    /\ settings_exists
    /\ creds_loaded' = TRUE
    /\ mPc' = "submit"
    /\ UNCHANGED <<settings_exists, printed, mResult, aVars, bVars>>
    /\ MFrame

\* lines 113-130: both scrapes are submitted to the executor.
MainSubmit ==
    /\ mPc = "submit"
    /\ aPc' = "create"
    /\ attempts_arg' = MainAttempts
    /\ attempts' = MainAttempts
    /\ bPc' = "create"
    /\ mPc' = "wait"
    /\ UNCHANGED <<attempt_no, logins, timeouts, open_sessions, aResult, bOpen, bResult>>
    /\ UNCHANGED <<settings_exists, creds_loaded, printed, mResult>>
    /\ MFrame

\* line 133: concurrent.futures.wait returns when both futures are done.
MainWait ==
    /\ mPc = "wait"
    /\ all_completed
    /\ mPc' = "results"
    /\ UNCHANGED <<settings_exists, creds_loaded, printed, mResult, aVars, bVars>>
    /\ MFrame

\* lines 135-141: take the results; a TimeoutException is printed and main
\* returns, any other exception leaves main.
MainResults ==
    /\ mPc = "results"
    /\ LET r == main_results(aResult, bResult)
       IN  IF r = "caught"
           THEN /\ printed' = printed \cup {"An error occurred while reading data from websites."}
                /\ mResult' = "returned"
                /\ mPc' = "done"
           ELSE IF r = "proceed"
           THEN /\ mPc' = "reconcile"
                /\ UNCHANGED <<printed, mResult>>
           ELSE /\ mResult' = r
                /\ mPc' = "done"
                /\ UNCHANGED printed
    /\ UNCHANGED <<settings_exists, creds_loaded, aVars, bVars>>
    /\ MFrame

MainInit ==
    /\ TimesIdle
    /\ RecIdle
    /\ PubIdle
    /\ ScrapeIdle
    /\ mPc = "start"
    /\ settings_exists \in BOOLEAN
    /\ creds_loaded = FALSE
    /\ printed = {}
    /\ mResult = "pending"

MainNext ==
    \/ MainCreateSettings \/ MainLoadCredentials \/ MainSubmit \/ MainWait \/ MainResults
    \/ ANext
    \/ BNext

SpecMain == MainInit /\ [][MainNext]_vars

\* ------------------------------------------------- claims on the scrapes and main
\* C8: called with attempts = n >= 1, read_data_from_mystudio makes at most n
\* attempts, starts a further attempt only after a TimeoutException, begins
\* every attempt with a new browser session and a login, and raises the
\* TimeoutException after the n-th timeout instead of returning data.
C8_RetryBudget ==
    attempts_arg >= 1 =>
        /\ attempt_no <= attempts_arg
        /\ attempt_no = (IF aPc = "create" \/ aResult = TimeoutException
                         THEN timeouts ELSE timeouts + 1)
        /\ logins = (IF aPc = "login" THEN attempt_no - 1 ELSE attempt_no)
        /\ (aPc = "login" => driver \in open_sessions)
        /\ (timeouts = attempts_arg <=> aResult = TimeoutException)
        /\ (aResult = TimeoutException => aPc = "raised")
        /\ (aResult = "data" => timeouts < attempts_arg)

C8_Witness ==
    /\ attempts_arg = 3
    /\ aResult = TimeoutException
    /\ attempt_no = 3
    /\ logins = 3
    /\ timeouts = 3

TimedOut == aResult = TimeoutException \/ bResult = TimeoutException

\* C9 as stated: whenever either scrape ended with a TimeoutException, main
\* prints the message and returns without raising, and no event is created.
C9_AnyTimeoutReturns ==
    (mPc = "done" /\ TimedOut) =>
        /\ mResult = "returned"
        /\ "An error occurred while reading data from websites." \in printed
        /\ events = <<>>

\* C9 amended: whenever either scrape ended with a TimeoutException no event is
\* created; main prints the message and returns without raising when the
\* MyStudio scrape timed out, or returned data and the Homebase scrape timed
\* out; when the MyStudio scrape ended with another exception, main raises it.
C9_TimeoutReturnsUnlessOtherError ==
    (mPc = "done" /\ TimedOut) =>
        /\ events = <<>>
        /\ (aResult \in {TimeoutException, "data"}
               => /\ mResult = "returned"
                  /\ "An error occurred while reading data from websites." \in printed)
        /\ (aResult \notin {TimeoutException, "data"} => mResult = aResult)

C9_Witness ==
    /\ mPc = "done"
    /\ aResult = "data"
    /\ bResult = TimeoutException
    /\ mResult = "returned"
    /\ events = <<>>

ARunning == aPc \notin {"idle", "returned", "raised"}

BRunning == bPc \notin {"idle", "returned", "raised"}

\* C11: in every interleaving, main is past the wait of line 133 (taking the
\* results, reconciling, publishing or ended) only when neither scrape is still
\* running, and no merge, assignment or publish step has started before that.
C11_JoinBeforeProceeding ==
    (mPc \in {"results", "reconcile", "done"} \/ rPc # "idle" \/ pPc # "idle")
        => ~ARunning /\ ~BRunning

\* The Homebase scrape has failed, the MyStudio scrape is in its third attempt,
\* and main still waits.
C11_Witness ==
    /\ mPc = "wait"
    /\ bPc = "raised"
    /\ aPc = "read_jr"
    /\ attempt_no = 3

FillInMessage == "Please fill out the settings.json file and run again."

\* C13: when settings.json is missing at the start, main's next step writes the
\* file, prints the fill-in message and returns; no credentials are loaded, no
\* scrape is started and no event is created, then or later.
C13_MissingSettingsStopsRun ==
    /\ [][(mPc = "start" /\ ~settings_exists)
             => /\ settings_exists'
                /\ FillInMessage \in printed'
                /\ mPc' = "done"
                /\ mResult' = "returned"]_vars
    /\ [](FillInMessage \in printed
             => /\ mPc = "done"
                /\ ~creds_loaded
                /\ aPc = "idle"
                /\ bPc = "idle"
                /\ events = <<>>)

C13_Witness ==
    /\ mPc = "done"
    /\ mResult = "returned"
    /\ FillInMessage \in printed
    /\ settings_exists
    /\ ~creds_loaded

\* The steps of one attempt that issue a DOM lookup through selenium_utils
\* (element, element_exists) on the attempt's driver.
LookupSteps ==
    {"login", "spinner", "menu", "exists_create", "read_create", "exists_jr", "read_jr"}

\* A lookup step that quits the session ends in the handler, and a lookup step
\* that ends in the handler has quit the session.
QuitsIffRaises ==
    /\ (driver \in open_sessions /\ driver \notin open_sessions') => aPc' = "caught"
    /\ aPc' = "caught" => driver \notin open_sessions'

\* C15: every timed-out DOM lookup of the MyStudio scrape both quits the
\* attempt's browser session and arrives as TimeoutException at the scrape's
\* handler: no lookup step quits the session and carries on, and none reaches
\* the handler with the session open.
C15_LookupTimeoutQuitsAndRaises ==
    [][(aPc \in LookupSteps) => QuitsIffRaises]_vars

\* C20: within an attempt every step that issues a DOM lookup or a browser
\* command finds the attempt's session open.
C20_LookupsOnLiveSession ==
    aPc \in LookupSteps \cup {"wait"} => driver \in open_sessions

InputUnchanged(i) ==
    /\ session_objs[i].students = scraped[i].students
    /\ session_objs[i].instructors = scraped[i].instructors

\* C16 as stated: the merge leaves the roster and the staff list of every entry
\* passed to it as they were, and a second merge of the same entries returns the
\* rosters and staff lists of the first.
C16_MergeLeavesInputsUnchanged ==
    rPc \in {"combined", "combined_again"} =>
        /\ \A i \in 1..Len(scraped) : InputUnchanged(i)
        /\ \A i \in 1..Len(combined_sessions) :
               LET e == session_objs[combined_sessions[i]]
               IN  /\ e.students = ConcatAt("students", e.start_time, Len(scraped))
                   /\ e.instructors = ConcatAt("instructors", e.start_time, Len(scraped))

IsFirstOfItsTime(i) == \A j \in 1..(i - 1) : scraped[j].start_time # scraped[i].start_time

\* The rosters or staff lists of the scraped entries after the first `first`
\* that start at `time`, concatenated in input order.
RECURSIVE ConcatAfter(_, _, _, _)
ConcatAfter(f, time, first, n) ==
    IF n <= first THEN <<>>
    ELSE ConcatAfter(f, time, first, n - 1)
         \o (IF scraped[n].start_time = time THEN scraped[n][f] ELSE <<>>)

\* C16, amended: the merge returns the first entry object of each start time
\* and extends it in place: after the merge that object's roster and staff list
\* are the concatenation over all input entries of its start time, and every
\* other input entry is unchanged; a second merge of the same objects appends
\* the lists of the later entries once more.
C16_FirstEntryGrowsInPlace ==
    /\ rPc \in {"combined", "combined_again"} =>
           /\ Len(session_objs) = Len(scraped)
           /\ \A i \in 1..Len(scraped) :
                  (i \in Range(combined_sessions)) <=> IsFirstOfItsTime(i)
           /\ \A i \in 1..Len(scraped) : ~IsFirstOfItsTime(i) => InputUnchanged(i)
    /\ \A i \in Range(combined_sessions) :
           LET t == scraped[i].start_time
               n == Len(scraped)
           IN  /\ rPc = "combined" =>
                      /\ session_objs[i].students = ConcatAt("students", t, n)
                      /\ session_objs[i].instructors = ConcatAt("instructors", t, n)
               /\ rPc = "combined_again" =>
                      /\ session_objs[i].students
                             = ConcatAt("students", t, n) \o ConcatAfter("students", t, i, n)
                      /\ session_objs[i].instructors
                             = ConcatAt("instructors", t, n)
                                   \o ConcatAfter("instructors", t, i, n)

\* Two entries at 9:00 with rosters <<2, 3>> and <<4>>: the first object holds
\* <<2, 3, 4>> after one merge and <<2, 3, 4, 4>> after the second.
C16_Witness ==
    /\ rPc = "combined_again"
    /\ Len(scraped) = 2
    /\ scraped[1].students = <<2, 3>>
    /\ session_objs[1].students = <<2, 3, 4, 4>>
    /\ session_objs[1].instructors = <<1, 1>>
    /\ session_objs[2].students = <<4>>

Count(s, x) == Cardinality({i \in 1..Len(s) : s[i] = x})

\* How often student object x is on the rosters of the first n scraped entries
\* that start at `time`.
RECURSIVE CountIn(_, _, _)
CountIn(x, time, n) ==
    IF n = 0 THEN 0
    ELSE CountIn(x, time, n - 1)
         + (IF scraped[n].start_time = time THEN Count(scraped[n].students, x) ELSE 0)

\* The same for the first n entries the merge returned.
RECURSIVE CountOut(_, _, _)
CountOut(x, time, n) ==
    IF n = 0 THEN 0
    ELSE CountOut(x, time, n - 1)
         + (IF session_objs[combined_sessions[n]].start_time = time
            THEN Count(session_objs[combined_sessions[n]].students, x)
            ELSE 0)

\* C17: right after the merge every student occurs on the rosters of the
\* returned entries of a start time exactly as often as on the rosters of the
\* input entries of that start time: nobody is lost, invented or moved to
\* another start time.
C17_NobodyLostOrInvented ==
    rPc = "combined" =>
        \A x \in 1..Len(StudentObjs) :
            \A time \in SessionTimes :
                CountOut(x, time, Len(combined_sessions)) = CountIn(x, time, Len(scraped))

\* Student 4 is on two input rosters at 9:30 and twice on the merged roster,
\* students 2 and 3 stay at 9:00.
C17_Witness ==
    /\ rPc = "combined"
    /\ Len(scraped) = 3
    /\ Len(combined_sessions) = 2
    /\ CountIn(4, Time(9, 30), 3) = 2
    /\ CountOut(4, Time(9, 30), 2) = 2
    /\ CountOut(2, Time(9, 0), 2) = 1
    /\ CountOut(2, Time(9, 30), 2) = 0

IsPrefix(s, t) == Len(s) <= Len(t) /\ SubSeq(t, 1, Len(s)) = s

OnlyStaffAppended ==
    /\ combined_sessions' = combined_sessions
    /\ Len(session_objs') = Len(session_objs)
    /\ \A i \in 1..Len(session_objs) :
           /\ session_objs'[i].start_time = session_objs[i].start_time
           /\ session_objs'[i].end_time = session_objs[i].end_time
           /\ session_objs'[i].students = session_objs[i].students
           /\ IsPrefix(session_objs[i].instructors, session_objs'[i].instructors)

\* C18: a run of the assignment keeps the number and order of the entries and
\* every entry's start time, end time and roster, and every entry's staff list
\* before the run is a prefix of its staff list after the run.
C18_AssignmentOnlyAppendsStaff ==
    [][(rPc \in {"combined", "assigned"} /\ rPc' = "assigned") => OnlyStaffAppended]_vars

\* An entry that carried staff member 1 from the scrape has got staff member 2
\* appended.
C18_Witness ==
    /\ rPc = "assigned"
    /\ runs = 1
    /\ \E i \in 1..Len(combined_sessions) :
           LET e == combined_sessions[i]
           IN  /\ scraped[e].instructors = <<1>>
               /\ scraped[e].students = <<4>>
               /\ session_objs[e].instructors = <<1, 2>>
               /\ session_objs[e].students = <<4>>

\* ------------------------------------------------- times of day
\* datetime.time(hour=hour, minute=minute) raises ValueError unless hour is in
\* 0..23 and minute in 0..59.
time_in_range(hour, minute) == hour \in 0..23 /\ minute \in 0..59

\* str.lower on a period
lower(period) ==
    CASE period = "AM" -> "am"
      [] period = "PM" -> "pm"
      [] OTHER -> period

\* homebase.convert_to_time(hours, minutes, period)
convert_to_time(hours, minutes, period) ==
    IF lower(period) = "pm" /\ hours # 12
    THEN Time(hours + 12, minutes)
    ELSE Time(hours, minutes)

\* my_studio.get_time_from_session_dropdown(text): text is "<hour>:<minute>
\* <period> ...", given here by its three tokens.
get_time_from_session_dropdown(text) ==
    LET time == Time(text.hour, text.minute)
    IN  IF text.period = "PM" /\ Hour(time) # 12
        THEN Time(Hour(time) + 12, Minute(time))
        ELSE time

Periods == {"AM", "PM", "am", "pm"}

Readings == [hour : 1..12, minute : 0..59, period : Periods]

TimesOfDay == {Time(hour, minute) : hour \in 0..23, minute \in 0..59}

TFrame == UNCHANGED <<recVars, pubVars, aVars, bVars, mVars>>

\* my_studio.py lines 69 and 92
GetTimeFromSessionDropdown ==
    /\ tPc = "reading"
    /\ time_of_day' = get_time_from_session_dropdown(reading)
    /\ via' = "get_time_from_session_dropdown"
    /\ tPc' = "parsed"
    /\ UNCHANGED <<reading, new_session>>
    /\ TFrame

\* homebase.py lines 199-200
ConvertToTime ==
    /\ tPc = "reading"
    /\ time_of_day' = convert_to_time(reading.hour, reading.minute, reading.period)
    /\ via' = "convert_to_time"
    /\ tPc' = "parsed"
    /\ UNCHANGED <<reading, new_session>>
    /\ TFrame

\* Session(time): my_studio.py line 70 on the time parsed from the dropdown, or
\* a caller passing any datetime.time; end_time is left to its default.
NewSession ==
    /\ \/ tPc = "clock"
       \/ tPc = "parsed" /\ via = "get_time_from_session_dropdown"
    /\ new_session' =
           IF time_in_range(Hour(time_of_day) + 1, Minute(time_of_day))
           THEN [raised |-> "none",
                 start_time |-> Session(time_of_day, <<>>, <<>>).start_time,
                 end_time |-> Session(time_of_day, <<>>, <<>>).end_time]
           ELSE [raised |-> "ValueError", start_time |-> time_of_day, end_time |-> 0]
    /\ tPc' = "constructed"
    /\ UNCHANGED <<reading, via, time_of_day>>
    /\ TFrame

TimesInit ==
    /\ RecIdle
    /\ PubIdle
    /\ ScrapeIdle
    /\ MainIdle
    /\ via = "none"
    /\ new_session = [raised |-> "none", start_time |-> 0, end_time |-> 0]
    /\ \/ /\ tPc = "reading"
          /\ reading \in Readings
          /\ time_of_day = 0
       \/ /\ tPc = "clock"
          /\ reading = [hour |-> 12, minute |-> 0, period |-> "AM"]
          /\ time_of_day \in TimesOfDay

TimesNext == GetTimeFromSessionDropdown \/ ConvertToTime \/ NewSession

SpecTimes == TimesInit /\ [][TimesNext]_vars

\* C14: every Session constructed without an explicit end time, whatever its
\* start time of day, is created without an error and ends one hour after it
\* starts, also for the start times 23:00 to 23:59.
C14_DefaultEndForEveryStart ==
    tPc = "constructed" =>
        /\ new_session.raised = "none"
        /\ new_session.start_time = time_of_day
        /\ new_session.end_time = new_session.start_time + 60

\* The 24-hour time of day a 12-hour reading stands for.
Matching24(r) ==
    Time((r.hour % 12) + (IF lower(r.period) = "pm" THEN 12 ELSE 0), r.minute)

\* C19: whichever of convert_to_time and get_time_from_session_dropdown parsed
\* the reading, the time returned is the matching 24-hour time: 12 AM is hour 0,
\* 12 PM hour 12, h PM hour h + 12 and h AM hour h, in either letter case.
C19_Matching24HourTime ==
    tPc = "parsed" => time_of_day = Matching24(reading)

\* C21: at any moment at most one MyStudio browser session is open, and when a
\* retry is about to create its webdriver the session of the attempt that timed
\* out has been quit, whether a DOM lookup or the loading-spinner wait timed out.
C21_AtMostOneOpenSession ==
    /\ Cardinality(open_sessions) <= 1
    /\ (aPc = "create" /\ attempt_no >= 1) => driver \notin open_sessions

Max1(n) == IF n > 1 THEN n ELSE 1

\* C22 as stated: the call ends only by returning the scraped data or by
\* raising the TimeoutException, the latter after exactly max(1, attempts)
\* attempts.
C22_EndsWithDataOrTimeout ==
    /\ ADone => aResult \in {"data", TimeoutException}
    /\ attempt_no <= Max1(attempts_arg)
    /\ aResult = TimeoutException => attempt_no = Max1(attempts_arg)

\* C22, amended: for every integer attempts, 0 and negative included, the call
\* finishes; it never makes more than max(1, attempts) attempts; it raises the
\* TimeoutException exactly when max(1, attempts) attempts have all timed out;
\* and it ends by returning the data, by raising the TimeoutException or by
\* raising one of the other exceptions of an attempt.
C22_AlwaysFinishes ==
    /\ <>ADone
    /\ [](attempt_no <= Max1(attempts_arg))
    /\ [](aResult = TimeoutException
             <=> (aPc = "raised" /\ timeouts = Max1(attempts_arg)))
    /\ [](timeouts = Max1(attempts_arg) => attempt_no = timeouts)
    /\ [](ADone => aResult \in {"data", TimeoutException, "ValueError",
                               "SystemExit", "WebDriverException"})

\* Called with attempts = -1, one attempt has timed out and the error is raised.
C22_Witness ==
    /\ attempts_arg = -1
    /\ aPc = "raised"
    /\ aResult = TimeoutException
    /\ attempt_no = 1
    /\ timeouts = 1

====
